---- MODULE Spec2Model ----
(***************************************************************************)
(* ColorMeanApp: hex/RGB/L*a*b* conversion (Converter.py), ingestion of    *)
(* colour records (PhotoVariant.py), per-photo per-k clustering and the    *)
(* text report (Cluster.py), and the viewer's load / recluster / save      *)
(* handlers (App.py).                                                      *)
(*                                                                         *)
(* Text is a sequence of one-character strings.  skimage's rgb2lab and     *)
(* lab2rgb and sklearn's KMeans are libraries outside the repository; the  *)
(* colour transform is taken on the grey axis (r = g = b, a* = b* = 0),    *)
(* where an L*a*b* point is its L* value, and KMeans is any fixpoint of    *)
(* Lloyd's iteration, the pseudo-random draw selecting among them.         *)
(***************************************************************************)
EXTENDS Integers, Sequences, FiniteSets, TLC

VARIABLES
    variants_by_photo_and_person, \* App.py:33, the repository held by the viewer
    clusters,                     \* App.py:35, the held ClusterResult
    first_result,                 \* history: what cluster_colors returned at load
    fresh,                        \* Cluster.py:55, result recomputed by the last save
    file,                         \* content of the file at the output path
    message,                      \* title of the dialog shown by the last handler
    raised,                       \* exception that left a handler uncaught
    loads,                        \* number of folder loads so far
    conv_op, conv_arg, conv_res   \* a call of a ColorConverter function

vars == <<variants_by_photo_and_person, clusters, first_result, fresh, file,
          message, raised, loads, conv_op, conv_arg, conv_res>>

appVars == <<variants_by_photo_and_person, clusters, first_result, fresh, file,
             message, raised, loads>>

None == "None"
ValueError == "ValueError"

\* What a call gives: a value, or the exception it raises.
Ok(v) == [exc |-> None, val |-> v]
Raise(e) == [exc |-> e, val |-> <<>>]

(***************************************************************************)
(* Bounds of the model.                                                    *)
(***************************************************************************)
MaxHashes == 2      \* leading '#' characters of a converter input
MaxBody == 6        \* characters after the leading '#'s of a converter input
MaxLines == 2       \* lines of a folder made of Lines
MaxLoads == 2       \* folder loads in one run of the viewer
RngDraws == 6       \* distinct draws of the unseeded generator

(***************************************************************************)
(* Characters and text.                                                    *)
(***************************************************************************)
UpperDigits == <<"0","1","2","3","4","5","6","7","8","9","A","B","C","D","E","F">>
LowerDigits == <<"0","1","2","3","4","5","6","7","8","9","a","b","c","d","e","f">>

\* The characters the model uses, in code-point order.
CodePoints == <<"\n", " ", "#", "+", ",", "-", ".",
                "0","1","2","3","4","5","6","7","8","9",
                "A","B","C","D","E","F","Z",
                "a","b","c","d","e","f","p","q","t","x">>

Ord(c) == CHOOSE i \in 1..Len(CodePoints) : CodePoints[i] = c

Range(s) == {s[i] : i \in 1..Len(s)}

IsHexDigit(c) == c \in Range(UpperDigits) \cup Range(LowerDigits)

DigitValue(c) ==
    (CHOOSE i \in 1..Len(UpperDigits) : UpperDigits[i] = c \/ LowerDigits[i] = c) - 1

RECURSIVE LStrip(_, _)
\* str.lstrip(chars): drops EVERY leading character that is in chars.
LStrip(s, chars) ==
    IF s # <<>> /\ Head(s) \in chars THEN LStrip(Tail(s), chars) ELSE s

RECURSIVE RStrip(_, _)
RStrip(s, chars) ==
    IF s # <<>> /\ s[Len(s)] \in chars
    THEN RStrip(SubSeq(s, 1, Len(s) - 1), chars) ELSE s

Strip(s, chars) == RStrip(LStrip(s, chars), chars)

\* Lexicographic order of str by code point (what sorted() uses).
RECURSIVE StrLess(_, _)
StrLess(s, t) ==
    IF t = <<>> THEN FALSE
    ELSE IF s = <<>> THEN TRUE
    ELSE IF Head(s) # Head(t) THEN Ord(Head(s)) < Ord(Head(t))
    ELSE StrLess(Tail(s), Tail(t))

(***************************************************************************)
(* Converter.py                                                            *)
(***************************************************************************)
\* int(text, 16): surrounding whitespace is dropped, one sign is allowed, the
\* rest must be hexadecimal digits (a "0x" prefix needs digits after it, and
\* '_' is allowed only between digits; neither fits the model's alphabet).
RECURSIVE DigitsValue(_, _)
DigitsValue(ds, acc) ==
    IF ds = <<>> THEN acc
    ELSE DigitsValue(Tail(ds), acc * Len(UpperDigits) + DigitValue(Head(ds)))

int16(text) ==
    LET t == Strip(text, {" ", "\n"})
        signed == t # <<>> /\ Head(t) \in {"+", "-"}
        ds == IF signed THEN Tail(t) ELSE t
    IN  IF ds = <<>> \/ \E i \in 1..Len(ds) : ~IsHexDigit(ds[i])
        THEN Raise(ValueError)
        ELSE IF signed /\ Head(t) = "-" THEN Ok(0 - DigitsValue(ds, 0))
        ELSE Ok(DigitsValue(ds, 0))

hex_to_rgb(hex_color) ==
    LET h == LStrip(hex_color, {"#"})
    IN  IF Len(h) # 6 THEN Raise(ValueError)
        ELSE LET r == int16(SubSeq(h, 1, 2))
                 g == int16(SubSeq(h, 3, 4))
                 b == int16(SubSeq(h, 5, 6))
             IN  IF ValueError \in {r.exc, g.exc, b.exc} THEN Raise(ValueError)
                 ELSE Ok(<<r.val, g.val, b.val>>)

\* format(n, "02X"): uppercase hexadecimal, sign first, zero-padded to width 2.
RECURSIVE HexDigitsOf(_)
HexDigitsOf(n) ==
    IF n < Len(UpperDigits) THEN <<UpperDigits[n + 1]>>
    ELSE Append(HexDigitsOf(n \div Len(UpperDigits)), UpperDigits[(n % Len(UpperDigits)) + 1])

\* format(n, "X"): no padding.
Format02XUnpadded(n) ==
    IF n < 0 THEN <<"-">> \o HexDigitsOf(0 - n) ELSE HexDigitsOf(n)

Format02X(n) ==
    IF n < 0 THEN <<"-">> \o HexDigitsOf(0 - n)
    ELSE LET ds == HexDigitsOf(n) IN IF Len(ds) < 2 THEN <<"0">> \o ds ELSE ds

\* "#{:X}{:X}{:X}".format(*rgb)
rgb_to_hex_unpadded(rgb) ==
    <<"#">> \o Format02XUnpadded(rgb[1]) \o Format02XUnpadded(rgb[2])
            \o Format02XUnpadded(rgb[3])

rgb_to_hex(rgb) ==
    <<"#">> \o Format02X(rgb[1]) \o Format02X(rgb[2]) \o Format02X(rgb[3])

\* skimage rgb2lab on the grey axis: L* rises linearly with the channel value
\* (0 -> 0, 255 -> 100); a* and b* are 0 and are not carried.
rgb2lab(rgb_scaled) == (100 * rgb_scaled[1]) \div 255

hex_to_lab(hex_color) ==
    LET rgb == hex_to_rgb(hex_color)
    IN  IF rgb.exc # None THEN rgb ELSE Ok(rgb2lab(rgb.val))

\* Python round(): to the nearest integer, halves to the even one.  n / d >= 0.
RoundHalfEven(n, d) ==
    LET q == n \div d
        r == n % d
    IN  IF 2 * r < d THEN q
        ELSE IF 2 * r > d THEN q + 1
        ELSE IF q % 2 = 0 THEN q ELSE q + 1

\* lab_to_hex: lab2rgb, each channel times 255 rounded, then rgb_to_hex.  L is
\* the fraction <<numerator, denominator>>; the grey channel is L / 100.
lab_to_hex(L) ==
    LET c == RoundHalfEven(255 * L[1], 100 * L[2])
    IN  rgb_to_hex(<<c, c, c>>)

\* The element of a one-element set.  Only({body : v \in {e}}) is body with v
\* standing for the value of e, which is computed once.
Only(S) == CHOOSE r \in S : TRUE

(***************************************************************************)
(* Ordered dictionaries (Python dict keeps insertion order): a sequence of *)
(* <<key, value>> pairs with distinct keys.                                *)
(***************************************************************************)
DictKeys(d) == [i \in 1..Len(d) |-> d[i][1]]
DictValues(d) == [i \in 1..Len(d) |-> d[i][2]]
DictHas(d, key) == \E i \in 1..Len(d) : d[i][1] = key
DictGet(d, key, default) ==
    IF DictHas(d, key) THEN d[CHOOSE i \in 1..Len(d) : d[i][1] = key][2] ELSE default
DictSet(d, key, value) ==
    IF DictHas(d, key)
    THEN [i \in 1..Len(d) |-> IF d[i][1] = key THEN <<key, value>> ELSE d[i]] \o <<>>
    ELSE Append(d, <<key, value>>)

(***************************************************************************)
(* PhotoVariant.py                                                         *)
(***************************************************************************)
TxtSuffix == <<".", "t", "x", "t">>

\* str.replace(".txt", ""): every occurrence is removed, left to right.
RECURSIVE RemoveTxt(_)
RemoveTxt(s) ==
    IF s = <<>> THEN <<>>
    ELSE IF Len(s) >= Len(TxtSuffix) /\ SubSeq(s, 1, Len(TxtSuffix)) = TxtSuffix
    THEN RemoveTxt(SubSeq(s, Len(TxtSuffix) + 1, Len(s)))
    ELSE <<Head(s)>> \o RemoveTxt(Tail(s))

\* [color.strip(",") for color in parts[1:]]
HexColors(parts) == [i \in 1..(Len(parts) - 1) |-> Strip(parts[i + 1], {","})] \o <<>>

\* [ColorConverter.hex_to_lab(hex_color) for hex_color in hex_colors]
\* A list of the first colour's conversion alone.
LabColorsFirst(hex_colors) == <<hex_to_lab(hex_colors[1])>>

LabColors(hex_colors) ==
    [i \in 1..Len(hex_colors) |-> hex_to_lab(hex_colors[i])] \o <<>>

\* PhotoVariant(...), or the exception a conversion raised.
Variant(file_name, photo_name, hex_colors, lab_colors) ==
    IF \E i \in 1..Len(lab_colors) : lab_colors[i].exc # None
    THEN Raise(ValueError)
    ELSE Ok(<<[file |-> file_name, photo |-> photo_name,
               colors_hex |-> hex_colors,
               colors_lab |-> [i \in 1..Len(lab_colors) |-> lab_colors[i].val]
                              \o <<>>]>>)

\* PhotoVariant.py:39-52.  One line of a data file, already stripped and split
\* at whitespace (parts); a blank line has no parts.  Gives <<record>>, or <<>>
\* for a line that is skipped.
ParseLine(file_name, parts) ==
    IF Len(parts) < 2 THEN Ok(<<>>)
    ELSE Only({Only({Variant(file_name, parts[1], hex_colors, lab_colors) :
                        lab_colors \in {LabColors(hex_colors)}}) :
                  hex_colors \in {HexColors(parts)}})

\* PhotoVariant.py:53-57: the record goes to the end of its photo's and
\* person's list, both created on first use.
Grouped(acc, person_name, variant) ==
    Only({DictSet(acc, variant.photo,
                  DictSet(persons, person_name,
                          Append(DictGet(persons, person_name, <<>>), variant))) :
             persons \in {DictGet(acc, variant.photo, <<>>)}})

RECURSIVE load_lines(_, _)
load_lines(lines, acc) ==
    IF lines = <<>> THEN Ok(acc)
    ELSE Only({IF parsed.exc # None THEN parsed
               ELSE IF parsed.val = <<>> THEN load_lines(Tail(lines), acc)
               ELSE Only({load_lines(Tail(lines), grown) :
                             grown \in {Grouped(acc, RemoveTxt(Head(lines).file_name),
                                                parsed.val[1])}}) :
                  parsed \in {ParseLine(Head(lines).file_name, Head(lines).parts)}})

\* folder: the lines of the folder's .txt files, in the order glob and the
\* files give them.
load_data(folder) == load_lines(folder, <<>>)

(***************************************************************************)
(* KMeans (sklearn), as the code uses it: labels_ and cluster_centers_.    *)
(***************************************************************************)
Abs(x) == IF x < 0 THEN 0 - x ELSE x

RECURSIVE Gcd(_, _)
Gcd(a, b) == IF b = 0 THEN a ELSE Only({Gcd(b, r) : r \in {a % b}})

\* The fraction n / d, reduced.
Fraction(n, d) == Only({<<n \div g, d \div g>> : g \in {Gcd(n, d)}})

RECURSIVE SumWhere(_, _, _, _)
SumWhere(X, labels, lbl, i) ==
    IF i > Len(X) THEN 0
    ELSE (IF labels[i] = lbl THEN X[i] ELSE 0) + SumWhere(X, labels, lbl, i + 1)

\* Mean of the points of X labelled lbl (there is one), as a reduced fraction.
Mean(X, labels, lbl) ==
    Fraction(SumWhere(X, labels, lbl, 1),
             Cardinality({i \in 1..Len(X) : labels[i] = lbl}))

\* cluster_centers_: the mean of each cluster; a cluster no point was given
\* to keeps the data point it was started at.
Centres(X, k, labels) ==
    [lbl \in 0..(k - 1) |->
        IF lbl \in Range(labels) THEN Mean(X, labels, lbl) ELSE <<X[1], 1>>] @@ <<>>

\* x is at least as near to centre c as to centre e (both fractions).
NotFarther(x, c, e) == Abs(x * c[2] - c[1]) * e[2] <= Abs(x * e[2] - e[1]) * c[2]

\* Lloyd's iteration has stopped: every point is nearest to its own centre.
Stable(X, k, labels) ==
    \E c \in {Centres(X, k, labels)} :
        \A i \in 1..Len(X) : \A m \in Range(labels) :
            NotFarther(X[i], c[labels[i]], c[m])

\* The labelings the iteration can stop at: equal points share a label, and
\* no cluster is left empty while there are distinct points to fill it.
Labelings(X, k) ==
    IF X = <<>> THEN {}
    ELSE LET V == Range(X)
             need == IF Cardinality(V) < k THEN Cardinality(V) ELSE k
         IN  {l \in {[i \in 1..Len(X) |-> f[X[i]]] \o <<>> : f \in [V -> 0..(k - 1)]} :
                Cardinality(Range(l)) = need /\ Stable(X, k, l)}

RECURSIVE LabelRank(_, _)
LabelRank(labels, k) ==
    IF labels = <<>> THEN 0
    ELSE LabelRank(SubSeq(labels, 1, Len(labels) - 1), k) * k + labels[Len(labels)]

\* The labelings in a fixed order, for the generator's draw to index.
Fits(X, k) ==
    Only({[i \in 1..Cardinality(S) |->
              CHOOSE l \in S :
                  Cardinality({m \in S : LabelRank(m, k) < LabelRank(l, k)}) = i - 1]
          \o <<>> :
             S \in {Labelings(X, k)}})

\* The result of fit(X): the generator's draw, a fixed function of the seed
\* and the data, picks one of the labelings.
FitOf(X, k, fits, random_state) ==
    IF Len(X) < k \/ Len(X) = 0 THEN Raise(ValueError)
    ELSE Only({Ok([labels_ |-> labels, cluster_centers_ |-> Centres(X, k, labels)]) :
                  labels \in {fits[((random_state + Len(X)) % Len(fits)) + 1]}})

\* KMeans(n_clusters=k, n_init='auto', random_state=...).fit(X)
KMeans(X, k, random_state) ==
    Only({FitOf(X, k, fits, random_state) : fits \in {Fits(X, k)}})

(***************************************************************************)
(* Cluster.py                                                              *)
(***************************************************************************)
KRange == 1..5      \* range(1, 6)

\* Cluster.py:20-24 and App.py:195-199: the L*a*b* points of the records of one
\* photo that have exactly k colours, in person, record and colour order.
\* A pooling that took only the first colour of each record of k colours.
RECURSIVE PoolFirstColours(_, _)
PoolFirstColours(variants, k) ==
    IF variants = <<>> THEN <<>>
    ELSE (IF Len(Head(variants).colors_lab) = k
          THEN <<Head(variants).colors_lab[1]>> ELSE <<>>)
         \o PoolFirstColours(Tail(variants), k)

RECURSIVE PoolVariants(_, _)
PoolVariants(variants, k) ==
    IF variants = <<>> THEN <<>>
    ELSE (IF Len(Head(variants).colors_lab) = k THEN Head(variants).colors_lab ELSE <<>>)
         \o PoolVariants(Tail(variants), k)

RECURSIVE PoolPersons(_, _)
PoolPersons(personLists, k) ==
    IF personLists = <<>> THEN <<>>
    ELSE PoolVariants(Head(personLists), k) \o PoolPersons(Tail(personLists), k)

lab_points(persons, k) == PoolPersons(DictValues(persons) \o <<>>, k)

\* The test with <= in place of <.
TooFewOrEqual(points, k) == Len(points) <= k

\* "if len(lab_points) < k: continue" (Cluster.py:25)
TooFew(points, k) == Len(points) < k

\* No test at all.
TooFewNever(points, k) == FALSE

\* "if len(lab_points) < k:" before the warning (App.py:200)
TooFewSelected(points, k) == Len(points) < k

\* The cluster indices that occur, in ascending order.
OrderSorted(labels, k) ==
    [i \in 1..Cardinality(Range(labels)) |->
        CHOOSE l \in Range(labels) :
            Cardinality({m \in Range(labels) : m < l}) = i - 1] \o <<>>

\* "Determine cluster order by first occurrence" (Cluster.py:35-42, App.py:211-217)
RECURSIVE OrderFrom(_, _, _, _)
OrderFrom(labels, i, order, k) ==
    IF i > Len(labels) THEN order
    ELSE Only({IF Len(next) = k THEN next ELSE OrderFrom(labels, i + 1, next, k) :
                  next \in {IF labels[i] \in Range(order) THEN order
                            ELSE Append(order, labels[i])}})

Order(labels, k) == OrderFrom(labels, 1, <<>>, k)

\* Cluster.py:44-49, App.py:219-224
BuildClusters(fit, k) ==
    Only({Only({[i \in 1..Len(order) |->
                    <<kmeans.cluster_centers_[order[i]],
                      lab_to_hex(kmeans.cluster_centers_[order[i]])>>] \o <<>> :
                   order \in {Order(kmeans.labels_, k)}}) :
             kmeans \in {fit}})

\* The seeds of a bulk path that drew from the global generator.
bulk_random_state_global == 0..(RngDraws - 1)

\* The seeds the bulk path may run with: random_state=0 (Cluster.py:30).
bulk_random_state == {0}

\* random_state=None (App.py:206): whatever the global generator draws.
recluster_random_state == 0..(RngDraws - 1)

\* Cluster.py:18-50 for one photo.
PhotoClusters(persons, seed) ==
    Only({[k \in {j \in KRange : ~TooFew(pools[j], j)} |->
              BuildClusters(KMeans(pools[k], k, seed).val, k)] @@ <<>> :
             pools \in {[k \in KRange |-> lab_points(persons, k)] \o <<>>}})

\* cluster_colors with the given seed.
cluster_colors_seeded(variants, seed) ==
    [photo \in Range(DictKeys(variants)) |->
        PhotoClusters(DictGet(variants, photo, <<>>), seed)] @@ <<>>

\* The results cluster_colors can return for this repository.
cluster_colors(variants) ==
    {cluster_colors_seeded(variants, seed) : seed \in bulk_random_state}

\* Cluster.py:57-61: the report, line by line.
RECURSIVE Join(_, _)
Join(strs, sep) ==
    IF strs = <<>> THEN <<>>
    ELSE IF Len(strs) = 1 THEN strs[1]
    ELSE strs[1] \o sep \o Join(Tail(strs), sep)

\* The order of int, and its reverse.
IntGreater(a, b) == a > b

IntLess(a, b) == a < b

\* sorted(S) for a set of str and for a set of int.
SortedStr(S) ==
    [i \in 1..Cardinality(S) |->
        CHOOSE x \in S : Cardinality({y \in S : StrLess(y, x)}) = i - 1] \o <<>>

SortedInt(S) ==
    [i \in 1..Cardinality(S) |->
        CHOOSE x \in S : Cardinality({y \in S : IntLess(y, x)}) = i - 1] \o <<>>

ReportLine(photo, entry) ==
    photo \o <<" ", " ">>
          \o Join([i \in 1..Len(entry) |-> entry[i][2]] \o <<>>, <<",", " ">>)
          \o <<"\n">>

PhotoLines(photo, byK) ==
    Only({[j \in 1..Len(ks) |-> ReportLine(photo, byK[ks[j]])] \o <<>> :
             ks \in {SortedInt(DOMAIN byK)}})

RECURSIVE Flatten(_)
Flatten(ss) == IF ss = <<>> THEN <<>> ELSE Head(ss) \o Flatten(Tail(ss))

ReportLines(result) ==
    Only({Flatten([p \in 1..Len(photos) |-> PhotoLines(photos[p], result[photos[p]])]
                  \o <<>>) :
             photos \in {SortedStr(DOMAIN result)}})

(***************************************************************************)
(* Inputs.                                                                 *)
(***************************************************************************)
Grey(c) == <<"#", c, c, c, c, c, c>>

\* Hex colours of the records; their L* is 0, 40 and 100.
Black == Grey("0")
Mid == Grey("6")
White == Grey("F")

\* "<photoId> <hex1>, <hex2>, ...": every colour but the last carries a comma.
Tokens(photo, colours) ==
    <<photo>> \o [i \in 1..Len(colours) |->
                    IF i < Len(colours) THEN Append(colours[i], ",") ELSE colours[i]]

PersonP == <<"p", ".", "t", "x", "t">>
PersonQ == <<"q", ".", "t", "x", "t">>

\* The records a line may hold, as <<file, photoId, colours>>: for one photo a
\* colour alone, the same colour twice, two pairs of distinct colours that
\* share a colour, given by two persons, and six colours; a colour alone for
\* a photo that sorts before the first.
Records ==
    {<<PersonP, <<"b">>, <<Black>>>>,
     <<PersonP, <<"b">>, <<Black, Black>>>>,
     <<PersonP, <<"b">>, <<Black, White>>>>,
     <<PersonQ, <<"b">>, <<White, Mid>>>>,
     <<PersonQ, <<"b">>, <<Black, Black, Black, Black, Black, Black>>>>,
     <<PersonQ, <<"a", "b">>, <<White>>>>}

\* A line whose colour is no hex colour.
BadLine == [file_name |-> PersonP,
            parts |-> <<<<"b">>, <<"#", "Z", "Z", "Z", "Z", "Z", "Z">>>>]

Lines == {[file_name |-> r[1], parts |-> Tokens(r[2], r[3])] : r \in Records}
         \cup {BadLine}

\* A folder of two persons' files: two two-colour records and a one-colour
\* record of one photo, and a one-colour record of another.
MixedFolder ==
    <<[file_name |-> PersonP, parts |-> Tokens(<<"b">>, <<Black, White>>)],
      [file_name |-> PersonP, parts |-> Tokens(<<"b">>, <<Mid>>)],
      [file_name |-> PersonP, parts |-> Tokens(<<"a", "b">>, <<White>>)],
      [file_name |-> PersonQ, parts |-> Tokens(<<"b">>, <<White, Mid>>)]>>

\* The folders loaded first, and the ones loaded over a repository.
Folders == (UNION {[1..n -> Lines] : n \in 0..MaxLines}) \cup {MixedFolder}

Reloads == {folder \in Folders : Len(folder) = 0} \cup {MixedFolder}

ComboItems == <<"All", "1", "2", "3", "4", "5">>   \* App.py:42-44

\* int(k_text) for the combo box's numeric items.
IntOfItem(k_text) == (CHOOSE i \in 1..Len(ComboItems) : ComboItems[i] = k_text) - 1

OldContent == <<<<"o", "l", "d", "\n">>>>

HexAlphabet == {"#", "F", "a", "Z", "+"}

\* The strings of up to hashes '#' characters and then up to body characters.
HexInputs(hashes, body) ==
    {[i \in 1..h |-> "#"] \o rest :
        h \in 0..hashes, rest \in UNION {[1..n -> HexAlphabet] : n \in 0..body}}

ByteSamples == {0, 10, 255}

RgbInputs ==
    {<<r, g, b>> : r \in 0..255, g \in ByteSamples, b \in ByteSamples}
    \cup {<<r, g, b>> : r \in ByteSamples, g \in 0..255, b \in ByteSamples}
    \cup {<<r, g, b>> : r \in ByteSamples, g \in ByteSamples, b \in 0..255}

(***************************************************************************)
(* App.py: the viewer.                                                     *)
(***************************************************************************)
Warning(title) == <<"warning", title>>
Information(title) == <<"information", title>>
Critical(title) == <<"critical", title>>
NoDialog == <<"none", "">>

Init ==
    /\ variants_by_photo_and_person = <<>>
    /\ clusters = <<>>
    /\ first_result = <<>>
    /\ fresh = <<>>
    /\ file = OldContent
    /\ message = NoDialog
    /\ raised = None
    /\ loads = 0
    /\ conv_op = None
    /\ conv_arg = <<>>
    /\ conv_res = Ok(<<>>)

\* ColorPlotApp.load_data with both folders chosen.
Load(folder) ==
    /\ raised = None
    /\ loads < MaxLoads
    /\ loads' = loads + 1
    /\ \E data \in {load_data(folder)} :
           IF data.exc # None
           THEN /\ raised' = data.exc
                /\ UNCHANGED <<variants_by_photo_and_person, clusters, first_result,
                               fresh, message>>
           ELSE /\ variants_by_photo_and_person' = data.val
                /\ \E result \in cluster_colors(data.val) :
                      /\ clusters' = result
                      /\ first_result' = <<result>>
                /\ fresh' = <<>>
                /\ message' = NoDialog
                /\ raised' = None
    /\ UNCHANGED <<file, conv_op, conv_arg, conv_res>>

\* held[photo_name] = {k: new_clusters}: the photo's other entries are dropped.
SetEntryWholePhoto(held, photo_name, k, new_clusters) ==
    [p \in (DOMAIN held) \cup {photo_name} |->
        IF p = photo_name THEN [j \in {k} |-> new_clusters] ELSE held[p]]

\* dict.setdefault(photo_name, {})[k] = new_clusters
SetEntry(held, photo_name, k, new_clusters) ==
    LET old == IF photo_name \in DOMAIN held THEN held[photo_name] ELSE <<>>
        new == [j \in (DOMAIN old) \cup {k} |-> IF j = k THEN new_clusters ELSE old[j]]
    IN  [p \in (DOMAIN held) \cup {photo_name} |-> IF p = photo_name THEN new ELSE held[p]]

\* ColorPlotApp.on_recluster; photo_item is the list's current item (<<>> for
\* none) and k_text the combo box's current text.
Recluster(photo_item, k_text) ==
    /\ raised = None
    /\ UNCHANGED <<variants_by_photo_and_person, first_result, fresh, file, loads,
                   conv_op, conv_arg, conv_res>>
    /\ IF photo_item = <<>> \/ k_text = "All"
       THEN /\ message' = Warning("Brak wyboru")
            /\ UNCHANGED <<clusters, raised>>
       ELSE \E k \in {IntOfItem(k_text)} :
            \E points \in {lab_points(DictGet(variants_by_photo_and_person,
                                              photo_item, <<>>), k)} :
               IF TooFewSelected(points, k)
               THEN /\ message' = Warning("Brak danych")
                    /\ UNCHANGED <<clusters, raised>>
               ELSE \E fits \in {Fits(points, k)} :
                    \E kmeans \in {FitOf(points, k, fits, seed) :
                                      seed \in recluster_random_state} :
                       IF kmeans.exc # None
                       THEN /\ raised' = kmeans.exc
                            /\ UNCHANGED <<clusters, message>>
                       ELSE /\ clusters' = SetEntry(clusters, photo_item, k,
                                                    BuildClusters(kmeans.val, k))
                            /\ message' = Information("Przeliczono")
                            /\ raised' = None

\* What the file system can do to save_clusters: let it finish, fail the
\* open, or fail a write after some of the lines went through.
IoOutcomes(lines) ==
    {<<"ok", Len(lines)>>, <<"open", 0>>} \cup {<<"write", n>> : n \in 0..(Len(lines) - 1)}

\* Cluster.py:56-61: open(output_file, 'w') empties the file, each f.write
\* adds a line; a failed open leaves the file as it was.
FileAfter(old, lines, io) ==
    IF io[1] = "open" THEN old ELSE SubSeq(lines, 1, io[2])

\* A save that wrote the held result instead of computing one.
SaveClustersHeld ==
    /\ raised = None
    /\ UNCHANGED <<variants_by_photo_and_person, clusters, first_result, raised, loads,
                   conv_op, conv_arg, conv_res>>
    /\ IF variants_by_photo_and_person = <<>>
       THEN /\ message' = Warning("Brak danych")
            /\ UNCHANGED <<fresh, file>>
       ELSE \E lines \in {ReportLines(clusters)} :
               /\ fresh' = <<clusters>>
               /\ \E io \in IoOutcomes(lines) :
                     /\ file' = FileAfter(file, lines, io)
                     /\ message' = IF io[1] = "ok" THEN Information("Zapisano")
                                   ELSE Critical("Blad")

\* ColorPlotApp.on_save_clusters with a path chosen.
SaveClusters ==
    /\ raised = None
    /\ UNCHANGED <<variants_by_photo_and_person, clusters, first_result, raised, loads,
                   conv_op, conv_arg, conv_res>>
    /\ IF variants_by_photo_and_person = <<>>
       THEN /\ message' = Warning("Brak danych")
            /\ UNCHANGED <<fresh, file>>
       ELSE \E result \in cluster_colors(variants_by_photo_and_person) :
               \E lines \in {ReportLines(result)} :
                   /\ fresh' = <<result>>
                   /\ \E io \in IoOutcomes(lines) :
                         /\ file' = FileAfter(file, lines, io)
                         /\ message' = IF io[1] = "ok" THEN Information("Zapisano")
                                       ELSE Critical("Blad")

\* The selections on_recluster can find: no photo selected, or a photo of the
\* list (App.py:102-103) with one of the combo box's items.
Selections ==
    {<<<<>>, "All">>}
    \cup (Range(DictKeys(variants_by_photo_and_person)) \X Range(ComboItems))

Next ==
    \/ /\ loads < MaxLoads
       /\ \E folder \in (IF loads = 0 THEN Folders ELSE Reloads) : Load(folder)
    \/ /\ raised = None
       /\ \E sel \in Selections : Recluster(sel[1], sel[2])
    \/ SaveClusters

Spec == Init /\ [][Next]_vars

(***************************************************************************)
(* The converter's functions, called on their own.                         *)
(***************************************************************************)
CallHexToRgb(hex_color) ==
    /\ conv_op = None
    /\ conv_op' = "hex_to_rgb"
    /\ conv_arg' = hex_color
    /\ conv_res' = hex_to_rgb(hex_color)
    /\ UNCHANGED appVars

CallRgbToHex(rgb) ==
    /\ conv_op = None
    /\ conv_op' = "rgb_to_hex"
    /\ conv_arg' = rgb
    /\ conv_res' = Ok(rgb_to_hex(rgb))
    /\ UNCHANGED appVars

ConvNext ==
    \/ /\ conv_op = None
       /\ \E hex_color \in HexInputs(MaxHashes, MaxBody) : CallHexToRgb(hex_color)
    \/ /\ conv_op = None
       /\ \E rgb \in RgbInputs : CallRgbToHex(rgb)

ConvSpec == Init /\ [][ConvNext]_vars

(***************************************************************************)
(* load_data of PhotoVariant.py, called on its own.                        *)
(***************************************************************************)
\* A blank line, a line of a photoId alone, and a record whose colour has no
\* '#' and lowercase digits.
BlankLine == [file_name |-> PersonP, parts |-> <<>>]
ShortLine == [file_name |-> PersonP, parts |-> <<<<"b">>>>]
PlainLine == [file_name |-> PersonQ,
              parts |-> <<<<"b">>, <<"f", "f", "f", "f", "f", "f">>>>]

IngestLines == Lines \cup {BlankLine, ShortLine, PlainLine}

\* The folders of up to n lines.
IngestFolders(n) == UNION {[1..m -> IngestLines] : m \in 0..n}

CallLoadData(folder) ==
    /\ conv_op = None
    /\ conv_op' = "load_data"
    /\ conv_arg' = folder
    /\ conv_res' = load_data(folder)
    /\ UNCHANGED appVars

IngestNext ==
    /\ conv_op = None
    /\ \E folder \in IngestFolders(MaxLines) : CallLoadData(folder)

IngestSpec == Init /\ [][IngestNext]_vars

(***************************************************************************)
(* Properties.                                                             *)
(***************************************************************************)
\* The repository's photos, and the number of colours the records of photo
\* with exactly k colours hold, over every person.
Photos == Range(DictKeys(variants_by_photo_and_person))

PooledCount(photo, k) ==
    LET persons == DictGet(variants_by_photo_and_person, photo, <<>>)
    IN  k * Cardinality(UNION {{<<i, j>> : j \in {n \in 1..Len(persons[i][2]) :
                                          Len(persons[i][2][n].colors_hex) = k}} :
                               i \in 1..Len(persons)})

\* The results of cluster_colors the state holds: the one made at loading and
\* the one made at the last save.
BulkResults == Range(first_result) \cup Range(fresh)

\* C1: every (photoId, k) entry of a ClusterResult, made by cluster_colors or
\* written by on_recluster, is a sequence of exactly k pairs.
C1_EntryHasExactlyKPairs ==
    \A r \in BulkResults \cup {clusters} :
        \A p \in DOMAIN r : \A k \in DOMAIN r[p] : Len(r[p][k]) = k

\* C2: the result of cluster_colors has an entry for (photoId, k), k in 1..5,
\* exactly when at least k points are pooled for it over all persons from the
\* records with exactly k colours; its photos are the repository's and no key
\* outside 1..5 appears.
C2_EntryIffEnoughPoints ==
    \A r \in BulkResults :
        /\ DOMAIN r = Photos
        /\ \A p \in DOMAIN r :
              /\ DOMAIN r[p] \subseteq 1..5
              /\ \A k \in 1..5 : (k \in DOMAIN r[p]) <=> (PooledCount(p, k) >= k)

\* A photo with a two-colour record of one person and a six-colour record of
\* another: its only entry is the one for k = 2.
C2_Witness ==
    /\ fresh # <<>>
    /\ \E p \in Photos :
          /\ Len(DictGet(variants_by_photo_and_person, p, <<>>)) = 2
          /\ PooledCount(p, 6) = 6
          /\ PooledCount(p, 2) = 2
          /\ DOMAIN fresh[1][p] = {2}

\* C3: cluster_colors called again on the unchanged repository, with
\* reclusterings in between or not, returns what the first call returned.
C3_ClusterColorsDeterministic ==
    fresh # <<>> => fresh = first_result

\* The second call comes after a reclustering that changed the held result.
C3_Witness ==
    /\ fresh # <<>>
    /\ fresh = first_result
    /\ clusters # first_result[1]
    /\ \E p \in DOMAIN clusters : \E k \in DOMAIN clusters[p] : Len(clusters[p][k]) > 1

\* The index of the first point with label lbl.
FirstIndex(labels, lbl) ==
    CHOOSE i \in 1..Len(labels) :
        labels[i] = lbl /\ \A j \in 1..(i - 1) : labels[j] # lbl

\* entry lists the clusters of the labelling by first occurrence: the cluster
\* whose first point comes n-th among the clusters' first points is at place
\* n, with its mean.
InFirstOccurrenceOrder(entry, X, labels) ==
    /\ Len(entry) = Cardinality(Range(labels))
    /\ \A lbl \in Range(labels) :
          LET before == {m \in Range(labels) :
                            FirstIndex(labels, m) < FirstIndex(labels, lbl)}
          IN  entry[Cardinality(before) + 1][1] = Mean(X, labels, lbl)
    /\ entry[1][1] = Mean(X, labels, labels[1])

EntryOrderedByFirstOccurrence(r) ==
    \A p \in DOMAIN r : \A k \in DOMAIN r[p] :
        \E X \in {lab_points(DictGet(variants_by_photo_and_person, p, <<>>), k)} :
            \E labels \in Labelings(X, k) :
                InFirstOccurrenceOrder(r[p][k], X, labels)

\* C4: in every entry the clusters stand in the order in which their first
\* pooled points come, whatever indices KMeans gave them; the first pair is
\* the centroid of the cluster of the first pooled point.
C4_OrderedByFirstOccurrence ==
    \A r \in BulkResults \cup {clusters} : EntryOrderedByFirstOccurrence(r)

\* A reclustered entry of two clusters that differs from the loaded one.
C4_Witness ==
    /\ message = Information("Przeliczono")
    /\ \E p \in DOMAIN clusters :
          /\ 2 \in DOMAIN clusters[p]
          /\ Len(clusters[p][2]) = 2
          /\ clusters[p][2] # first_result[1][p][2]

\* The (photoId, k) keys of a result, and their order in the report.
EntryKeys(r) == {pk \in (DOMAIN r) \X (1..5) : pk[2] \in DOMAIN r[pk[1]]}

KeyBefore(a, b) == StrLess(a[1], b[1]) \/ (a[1] = b[1] /\ a[2] < b[2])

RECURSIVE HexList(_, _)
HexList(entry, i) ==
    IF i > Len(entry) THEN <<>>
    ELSE (IF i = 1 THEN <<>> ELSE <<",", " ">>) \o entry[i][2] \o HexList(entry, i + 1)

\* C5: after a save that succeeded the file holds one line for each entry of
\* the result just computed and nothing else, ordered by photoId and then by
\* k; a line is the photoId, two spaces, the entry's hex strings joined by
\* ", ", and a newline.
C5_ReportFormat ==
    message = Information("Zapisano") =>
        /\ Len(file) = Cardinality(EntryKeys(fresh[1]))
        /\ \A pk \in EntryKeys(fresh[1]) :
              LET before == {o \in EntryKeys(fresh[1]) : KeyBefore(o, pk)}
              IN  file[Cardinality(before) + 1] =
                      pk[1] \o <<" ", " ">> \o HexList(fresh[1][pk[1]][pk[2]], 1)
                            \o <<"\n">>

\* A saved report with two entries of one photo, one of them of two colours.
C5_Witness ==
    /\ message = Information("Zapisano")
    /\ Len(file) = 2
    /\ \E p \in DOMAIN fresh[1] : DOMAIN fresh[1][p] = {1, 2}
    /\ \E p \in DOMAIN fresh[1] : Len(fresh[1][p][2]) = 2

\* C6: a save that fails, at the clustering, the opening or a write, leaves
\* the file with the content it had or with the whole report, never emptied
\* and never with only the first lines of the report.
C6_SaveAllOrNothing ==
    [][(message' = Critical("Blad") /\ fresh' # <<>>)
          => (file' = file \/ file' = ReportLines(fresh'[1]))]_vars

\* An optional single '#' and then exactly six hexadecimal digits.
WellFormedHex(s) ==
    LET digits == IF s # <<>> /\ s[1] = "#" THEN Tail(s) ELSE s
    IN  Len(digits) = 6 /\ \A i \in 1..6 : IsHexDigit(digits[i])

\* C7: hex_to_rgb raises for every string that is not an optional single '#'
\* and six hexadecimal digits, and for every string that is returns three
\* integers in 0..255.
C7_HexToRgbRejectsMalformed ==
    conv_op = "hex_to_rgb" =>
        /\ (conv_res.exc = None) <=> WellFormedHex(conv_arg)
        /\ conv_res.exc = None =>
              /\ Len(conv_res.val) = 3
              /\ \A i \in 1..3 : conv_res.val[i] \in 0..255

\* C8: for channels in 0..255 rgb_to_hex gives '#' and six uppercase
\* hexadecimal digits, and hex_to_rgb gives the channels back.
C8_RgbToHexRoundTrip ==
    conv_op = "rgb_to_hex" =>
        /\ Len(conv_res.val) = 7
        /\ conv_res.val[1] = "#"
        /\ \A i \in 2..7 : conv_res.val[i] \in Range(UpperDigits)
        /\ hex_to_rgb(conv_res.val) = Ok(conv_arg)

\* A triple with a channel below 16, one of a letter digit and the largest.
C8_Witness ==
    /\ conv_op = "rgb_to_hex"
    /\ conv_arg = <<10, 171, 255>>
    /\ conv_res.val = <<"#", "0", "A", "A", "B", "F", "F">>

\* The entry of (p, j) in a result, <<>> where there is none.
EntryAt(r, p, j) ==
    IF p \in DOMAIN r /\ j \in DOMAIN r[p] THEN <<r[p][j]>> ELSE <<>>

\* C9: a step of on_recluster that succeeds for the selected photo and k
\* changes no entry of the held result but the one of that photo and k, and
\* leaves the repository as it was.
C9_ReclusterChangesOneEntry ==
    [][\A sel \in Selections :
          (message' = Information("Przeliczono") /\ Recluster(sel[1], sel[2]))
          => /\ variants_by_photo_and_person' = variants_by_photo_and_person
             /\ \A p \in (DOMAIN clusters) \cup (DOMAIN clusters') : \A j \in 1..5 :
                   <<p, j>> # <<sel[1], IntOfItem(sel[2])>>
                       => EntryAt(clusters', p, j) = EntryAt(clusters, p, j)]_vars

\* A reclustering replaced one entry of a held result that has two others, of
\* the same photo and of another.
C9_Witness ==
    /\ message = Information("Przeliczono")
    /\ clusters # first_result[1]
    /\ Cardinality(EntryKeys(clusters)) = 3
    /\ Cardinality({pk \in EntryKeys(clusters) :
                       EntryAt(clusters, pk[1], pk[2])
                           = EntryAt(first_result[1], pk[1], pk[2])}) = 2

\* C10: a step of on_recluster for a photo and k with fewer than k pooled
\* points ends in a warning, raises nothing and leaves the held result as it
\* was.
C10_ReclusterTooFewPoints ==
    [][\A sel \in Selections :
          (/\ sel[1] # <<>>
           /\ sel[2] # "All"
           /\ PooledCount(sel[1], IntOfItem(sel[2])) < IntOfItem(sel[2])
           /\ Recluster(sel[1], sel[2]))
          => /\ message'[1] = "warning"
             /\ raised' = None
             /\ clusters' = clusters]_vars

\* The warning of on_recluster, after a reclustering that had changed the
\* held result.
C10_Witness ==
    /\ message = Warning("Brak danych")
    /\ variants_by_photo_and_person # <<>>
    /\ raised = None
    /\ clusters # first_result[1]

\* C11: a save that succeeds writes the report of the result cluster_colors
\* gave at load, whatever reclusterings changed in the held result since, and
\* leaves the held result as it was.
C11_SaveIgnoresHeldResult ==
    [][message' = Information("Zapisano")
          => /\ clusters' = clusters
             /\ file' = ReportLines(first_result'[1])]_vars

\* A report saved while the held result, changed by a reclustering, would
\* have given another report.
C11_Witness ==
    /\ message = Information("Zapisano")
    /\ clusters # first_result[1]
    /\ file = ReportLines(first_result[1])
    /\ file # ReportLines(clusters)

\* The lines of a folder that hold a record: those of at least two tokens.
RecordLines(folder) == SelectSeq(folder, LAMBDA line : Len(line.parts) >= 2)

\* The colours of a line all convert.
Converts(line) ==
    \A i \in 2..Len(line.parts) : hex_to_lab(Strip(line.parts[i], {","})).exc = None

\* The records of a repository, as <<photo, person, record>>.
RepositoryRecords(repo) ==
    UNION {UNION {{<<repo[i][1], repo[i][2][j][1], repo[i][2][j][2][n]>> :
                      n \in 1..Len(repo[i][2][j][2])} :
                  j \in 1..Len(repo[i][2])} :
           i \in 1..Len(repo)}

\* The records the repository holds for a photo and a person.
RecordsOf(repo, photo, person) == DictGet(DictGet(repo, photo, <<>>), person, <<>>)

\* The colour counts of the lines of a photo and a person, in line order.
LinesOf(folder, photo, person) ==
    SelectSeq(RecordLines(folder),
              LAMBDA line : line.parts[1] = photo /\ RemoveTxt(line.file_name) = person)

WellFormedRecord(record) ==
    /\ Len(record.colors_lab) = Len(record.colors_hex)
    /\ Len(record.colors_hex) >= 1
    /\ \A i \in 1..Len(record.colors_hex) :
          hex_to_lab(record.colors_hex[i]) = Ok(record.colors_lab[i])

\* Every line of at least two tokens gave one record, of one colour less than
\* the line has tokens, and the other lines gave none.
OneRecordPerLine(folder, repo) ==
    /\ \A r \in RepositoryRecords(repo) : WellFormedRecord(r[3])
    /\ \A i \in 1..Len(RecordLines(folder)) :
          LET line == RecordLines(folder)[i]
          IN  RecordsOf(repo, line.parts[1], RemoveTxt(line.file_name)) # <<>>
    /\ \A r \in RepositoryRecords(repo) :
          LET records == RecordsOf(repo, r[1], r[2])
              lines == LinesOf(folder, r[1], r[2])
          IN  /\ Len(records) = Len(lines)
              /\ \A n \in 1..Len(records) :
                    Len(records[n].colors_hex) = Len(lines[n].parts) - 1

\* C12 as stated: load_data raises nothing, every record has as many L*a*b*
\* colours as hex colours, at least one, each the conversion of its hex
\* colour, every line of at least two tokens gives exactly one record of one
\* colour less than its tokens, and blank and one-token lines give none.
C12_OneRecordPerLine ==
    conv_op = "load_data" =>
        /\ conv_res.exc = None
        /\ OneRecordPerLine(conv_arg, conv_res.val)

\* C12, amended: load_data raises exactly when a line of at least two tokens
\* has a colour that does not convert; when it raises nothing, every record
\* has as many L*a*b* colours as hex colours, at least one, each the
\* conversion of its hex colour, every line of at least two tokens gives
\* exactly one record of one colour less than its tokens, and blank and
\* one-token lines give none.
C12_OneRecordPerConvertibleLine ==
    conv_op = "load_data" =>
        /\ (conv_res.exc = None) <=>
              \A i \in 1..Len(RecordLines(conv_arg)) : Converts(RecordLines(conv_arg)[i])
        /\ conv_res.exc = None => OneRecordPerLine(conv_arg, conv_res.val)

\* A folder of a blank line and a record of two colours, loaded.
C12_Witness ==
    /\ conv_op = "load_data"
    /\ conv_res.exc = None
    /\ Len(conv_arg) = 2
    /\ conv_arg[1] = BlankLine
    /\ Cardinality(RepositoryRecords(conv_res.val)) = 1
    /\ \E r \in RepositoryRecords(conv_res.val) : Len(r[3].colors_lab) = 2

\* The keys of the held result are the keys cluster_colors gives for the held
\* repository.
HeldKeysAreCurrent ==
    \A r \in cluster_colors(variants_by_photo_and_person) :
        /\ DOMAIN clusters = DOMAIN r
        /\ EntryKeys(clusters) = EntryKeys(r)

\* C13: after any loads, reclusterings and saves the (photoId, k) keys of the
\* held result are those of cluster_colors on the held repository, a reload
\* included; on_recluster for a photo and k succeeds exactly when the held
\* result has that key.
C13_HeldKeysFollowRepository ==
    /\ []HeldKeysAreCurrent
    /\ [][\A sel \in Selections :
             (sel[1] # <<>> /\ sel[2] # "All" /\ Recluster(sel[1], sel[2]))
             => ((message' = Information("Przeliczono"))
                    <=> (<<sel[1], IntOfItem(sel[2])>> \in EntryKeys(clusters)))]_vars

\* A reclustering after a reload, the file still holding a report saved from
\* the repository loaded first, of another number of entries.
C13_Witness ==
    /\ loads = 2
    /\ message = Information("Przeliczono")
    /\ clusters # first_result[1]
    /\ file # OldContent
    /\ Len(file) > 0
    /\ Len(file) < Cardinality(EntryKeys(clusters))

\* The number of records of a photo, over all persons, with exactly k colours.
RecordCount(photo, k) ==
    LET persons == DictGet(variants_by_photo_and_person, photo, <<>>)
        places == UNION {{<<j, n>> : n \in 1..Len(persons[j][2])} :
                         j \in 1..Len(persons)}
    IN  Cardinality({jn \in places :
                        Len(persons[jn[1]][2][jn[2]].colors_hex) = k})

\* The points the code pools for a photo and k.
PointsPooled(photo, k) ==
    lab_points(DictGet(variants_by_photo_and_person, photo, <<>>), k)

\* C14: for every photo and k the pool holds k points for each of the photo's
\* records of exactly k colours, so it holds fewer than k only when it is
\* empty, and an entry is there exactly when the photo has such a record.
C14_PoolIsMultipleOfK ==
    \A p \in Photos : \A k \in KRange :
        /\ Len(PointsPooled(p, k)) = k * RecordCount(p, k)
        /\ Len(PointsPooled(p, k)) < k => PointsPooled(p, k) = <<>>
        /\ \A r \in BulkResults \cup {clusters} :
              (k \in DOMAIN r[p]) <=> (RecordCount(p, k) >= 1)

\* A photo with two records of two colours and none of three: four points
\* pooled for k = 2, and the entry for k = 2 alone.
C14_Witness ==
    /\ first_result # <<>>
    /\ \E p \in Photos :
          /\ RecordCount(p, 2) = 2
          /\ Len(PointsPooled(p, 2)) = 4
          /\ PointsPooled(p, 3) = <<>>
          /\ DOMAIN clusters[p] = {2}

====
